---- MODULE Spec2Model ----
(***************************************************************************)
(* Traffic data pipeline (TomTom collector, segment sampler, renderer).    *)
(*                                                                         *)
(* Modelled programs:                                                      *)
(*   collect_all_data.py   - tile maths, geometry reprojection, the tile   *)
(*                           collector, the incident collector, main       *)
(*   collect_speed_data.py - the segment sampler                           *)
(*   visualize_traffic.py  - the colour table of the renderer              *)
(*                                                                         *)
(* Number representation.  Python floats are modelled as integers:         *)
(*   - an angle (latitude, longitude) is a whole number of micro-degrees;  *)
(*   - a traffic level is a whole number of millionths;                    *)
(*   - a normalised Mercator ordinate is a fixed-point fraction.           *)
(* The Mercator transform and its inverse are transcendental; they are     *)
(* given as tables of the source's formulas evaluated at the sample        *)
(* points the model uses (MercatorYTable, MercatorLatTable).  The two      *)
(* tables are evaluated independently of each other, each from its own     *)
(* formula, so that a round trip through both is not an identity.          *)
(*                                                                         *)
(* Python values.  A dict is a TLA+ function from its keys (records); a    *)
(* key the dict lacks is a key outside DOMAIN.  A list or tuple is a       *)
(* sequence.  None is the record PyNone.  A raised exception is a record   *)
(* with the field "raised".                                                *)
(***************************************************************************)
EXTENDS Integers, Sequences, FiniteSets, TLC

VARIABLES
  call,          \* pure-function harness: the function applied and its arguments
  ret,           \* pure-function harness: its result, or Pending
  pc,            \* collect_all_data.main: position of the run
  cfg,           \* collect_all_data: bounding box and zoom of the run
  tiles,         \* collect_traffic_flow: the enumerated tile list
  ti,            \* collect_traffic_flow: index of the next tile of the loop
  all_features,  \* collect_traffic_flow: accumulated features
  all_records,   \* collect_traffic_flow: accumulated property records
  fetched,       \* environment: what the tile source answered, per tile
  incident_resp, \* environment: what the incident source answered
  log,           \* environment: requests and sleeps, in the order issued
  clock,         \* environment: datetime.now()
  files,         \* environment: the output directory, file name -> content
  s_pc,          \* collect_speed_data.main: position of the run
  s_input,       \* collect_speed_data: the features of INPUT_FILE
  s_idx,         \* collect_speed_data: index of the next feature of the loop
  raw_data,      \* collect_speed_data: accumulated sample records
  s_queries,     \* environment: outcome of the point query, per feature
  s_log,         \* environment: queries and sleeps of the sampler
  s_saved,       \* environment: the records written by the save step
  v_pc,          \* visualize_traffic.visualize: position of the run
  geojson_data,  \* visualize_traffic: the content of INPUT_FILE
  segments,      \* visualize: the segments load_segments returned
  seg_idx,       \* visualize: index of the segment the draw loop is at
  line_idx,      \* visualize: index of the coordinate pair within the segment
  image,         \* visualize: the canvas, as the cv2.line calls made on it
  total_lines,   \* visualize: the counter of lines drawn
  v_saved        \* environment: the image written to OUTPUT_FILE

vars == <<call, ret, pc, cfg, tiles, ti, all_features, all_records, fetched,
          incident_resp, log, clock, files,
          s_pc, s_input, s_idx, raw_data, s_queries, s_log, s_saved,
          v_pc, geojson_data, segments, seg_idx, line_idx, image, total_lines,
          v_saved>>

pureVars == <<call, ret>>
mainVars == <<pc, cfg, tiles, ti, all_features, all_records, fetched,
              incident_resp, log, clock, files>>
samplerVars == <<s_pc, s_input, s_idx, raw_data, s_queries, s_log, s_saved>>
renderVars == <<v_pc, geojson_data, segments, seg_idx, line_idx, image, total_lines,
                v_saved>>

-----------------------------------------------------------------------------
(* Bounds of the model *)

\* largest zoom level of the sampled tile pyramid
MaxZoom == 3
\* longest coordinate sequence of a sampled line or ring
MaxPts == 3
\* most parts (sub-lines, rings) of a sampled MultiLineString or Polygon
MaxParts == 2
\* most tiles of a bounding box the collector is run on
MaxTiles == 5
\* most features in the sampler's input file
MaxInput == 2

-----------------------------------------------------------------------------
(* Python values *)

PyNone == [py |-> "None"]
EmptyDict == [k \in {} |-> PyNone]
Pending == [py |-> "pending"]
Raised(kind) == [raised |-> kind]
IsRaised(v) == "raised" \in DOMAIN v

Min(a, b) == IF a <= b THEN a ELSE b
Max(a, b) == IF a >= b THEN a ELSE b

\* int(num / den) for den > 0: Python's int() truncates toward zero
IntTrunc(num, den) ==
  IF num >= 0 THEN num \div den ELSE -((-num) \div den)

\* dict.update: keys of new override keys of old
DictUpdateKeep(old, new) ==
  [k \in DOMAIN old \cup DOMAIN new |->
     IF k \in DOMAIN old THEN old[k] ELSE new[k]]
DictUpdate(old, new) ==
  [k \in DOMAIN old \cup DOMAIN new |->
     IF k \in DOMAIN new THEN new[k] ELSE old[k]]

\* dict.get(key, default)
DictGet(d, key, default) == IF key \in DOMAIN d THEN d[key] ELSE default

-----------------------------------------------------------------------------
(* Units *)

Micro == 10^6
Deg(d) == d * Micro
\* fixed-point denominators of the two Mercator tables
YScale == 2^24
LatScale == 2^16

-----------------------------------------------------------------------------
(* Geo-tile transform: collect_all_data.py, lines 33-58 *)

\* (1.0 - math.log(math.tan(lat_rad) + 1 / math.cos(lat_rad)) / math.pi) / 2.0
\* at latitude lat (micro-degrees), as a multiple of 1/YScale truncated toward
\* zero; the entries are the source's formula evaluated at each sample.
MercatorYTable(lat) ==
  CASE lat = -89000000 -> 21048847
    [] lat = -85051129 -> 16777216
    [] lat = -85050655 -> 16776960
    [] lat = -85050181 -> 16776704
    [] lat = -85049233 -> 16776192
    [] lat = -85047336 -> 16775167
    [] lat = -85043541 -> 16773120
    [] lat = -85035942 -> 16769024
    [] lat = -85020708 -> 16760832
    [] lat = -85000000 -> 16749736
    [] lat = -84990100 -> 16744447
    [] lat = -84928321 -> 16711680
    [] lat = -83979259 -> 16252927
    [] lat = -82687480 -> 15732735
    [] lat = -82676985 -> 15728895
    [] lat = -82676285 -> 15728640
    [] lat = -82675585 -> 15728384
    [] lat = -82665073 -> 15724544
    [] lat = -81093214 -> 15204352
    [] lat = -79204309 -> 14688255
    [] lat = -79187834 -> 14684159
    [] lat = -79173398 -> 14680575
    [] lat = -79172367 -> 14680320
    [] lat = -79171335 -> 14680064
    [] lat = -79170303 -> 14679808
    [] lat = -79169270 -> 14679551
    [] lat = -79154810 -> 14675968
    [] lat = -79138260 -> 14671871
    [] lat = -76840816 -> 14155775
    [] lat = -74043723 -> 13635584
    [] lat = -74021056 -> 13631744
    [] lat = -74019543 -> 13631487
    [] lat = -74018031 -> 13631232
    [] lat = -73995328 -> 13627391
    [] lat = -70612614 -> 13107199
    [] lat = -66652977 -> 12599295
    [] lat = -66583217 -> 12591103
    [] lat = -66548263 -> 12587007
    [] lat = -66522016 -> 12583936
    [] lat = -66517639 -> 12583424
    [] lat = -66515450 -> 12583168
    [] lat = -66513260 -> 12582911
    [] lat = -66511071 -> 12582655
    [] lat = -66508882 -> 12582400
    [] lat = -66504502 -> 12581888
    [] lat = -66478208 -> 12578815
    [] lat = -66443107 -> 12574720
    [] lat = -66372755 -> 12566527
    [] lat = -61606396 -> 12058623
    [] lat = -60000000 -> 11905118
    [] lat = -55825973 -> 11538431
    [] lat = -55779662 -> 11534591
    [] lat = -55776573 -> 11534335
    [] lat = -55773483 -> 11534079
    [] lat = -55727110 -> 11530239
    [] lat = -48922499 -> 11010047
    [] lat = -41112469 -> 10493952
    [] lat = -41046217 -> 10489856
    [] lat = -40988192 -> 10486272
    [] lat = -40984045 -> 10486016
    [] lat = -40979898 -> 10485759
    [] lat = -40975751 -> 10485504
    [] lat = -40971604 -> 10485248
    [] lat = -40913513 -> 10481664
    [] lat = -40847060 -> 10477567
    [] lat = -31952162 -> 9961471
    [] lat = -22024546 -> 9441280
    [] lat = -21948141 -> 9437440
    [] lat = -21943046 -> 9437184
    [] lat = -21937950 -> 9436927
    [] lat = -21861499 -> 9433088
    [] lat = -11178402 -> 8912896
    [] lat = -703107 -> 8421375
    [] lat = -351560 -> 8404991
    [] lat = -175781 -> 8396800
    [] lat = -87891 -> 8392704
    [] lat = -43945 -> 8390655
    [] lat = -21973 -> 8389632
    [] lat = -10986 -> 8389119
    [] lat = -5493 -> 8388863
    [] lat = 0 -> 8388608
    [] lat = 5493 -> 8388352
    [] lat = 10986 -> 8388096
    [] lat = 21973 -> 8387583
    [] lat = 43945 -> 8386560
    [] lat = 87891 -> 8384511
    [] lat = 175781 -> 8380415
    [] lat = 351560 -> 8372224
    [] lat = 703107 -> 8355840
    [] lat = 11178402 -> 7864319
    [] lat = 21861499 -> 7344127
    [] lat = 21937950 -> 7340288
    [] lat = 21943046 -> 7340031
    [] lat = 21948141 -> 7339775
    [] lat = 22024546 -> 7335935
    [] lat = 30000000 -> 6921863
    [] lat = 31952162 -> 6815744
    [] lat = 40847060 -> 6299648
    [] lat = 40913513 -> 6295551
    [] lat = 40971604 -> 6291967
    [] lat = 40975751 -> 6291711
    [] lat = 40979898 -> 6291456
    [] lat = 40984045 -> 6291199
    [] lat = 40988192 -> 6290943
    [] lat = 41046217 -> 6287359
    [] lat = 41112469 -> 6283263
    [] lat = 47100000 -> 5894147
    [] lat = 47160000 -> 5890037
    [] lat = 47220000 -> 5885922
    [] lat = 48922499 -> 5767168
    [] lat = 55727110 -> 5246976
    [] lat = 55773483 -> 5243136
    [] lat = 55776573 -> 5242880
    [] lat = 55779662 -> 5242624
    [] lat = 55825973 -> 5238784
    [] lat = 60000000 -> 4872097
    [] lat = 61606396 -> 4718592
    [] lat = 66372755 -> 4210688
    [] lat = 66443107 -> 4202495
    [] lat = 66478208 -> 4198400
    [] lat = 66504502 -> 4195327
    [] lat = 66508882 -> 4194815
    [] lat = 66511071 -> 4194560
    [] lat = 66513260 -> 4194304
    [] lat = 66515450 -> 4194047
    [] lat = 66517639 -> 4193791
    [] lat = 66522016 -> 4193279
    [] lat = 66548263 -> 4190208
    [] lat = 66583217 -> 4186112
    [] lat = 66652977 -> 4177920
    [] lat = 70612614 -> 3670016
    [] lat = 73995328 -> 3149824
    [] lat = 74018031 -> 3145983
    [] lat = 74019543 -> 3145728
    [] lat = 74021056 -> 3145471
    [] lat = 74043723 -> 3141631
    [] lat = 76840816 -> 2621440
    [] lat = 79138260 -> 2105344
    [] lat = 79154810 -> 2101247
    [] lat = 79169270 -> 2097664
    [] lat = 79170303 -> 2097407
    [] lat = 79171335 -> 2097151
    [] lat = 79172367 -> 2096895
    [] lat = 79173398 -> 2096640
    [] lat = 79187834 -> 2093056
    [] lat = 79204309 -> 2088960
    [] lat = 81093214 -> 1572863
    [] lat = 82665073 -> 1052671
    [] lat = 82675585 -> 1048831
    [] lat = 82676285 -> 1048575
    [] lat = 82676985 -> 1048320
    [] lat = 82687480 -> 1044480
    [] lat = 83979259 -> 524288
    [] lat = 84928321 -> 65535
    [] lat = 84990100 -> 32768
    [] lat = 85000000 -> 27479
    [] lat = 85020708 -> 16383
    [] lat = 85035942 -> 8191
    [] lat = 85043541 -> 4095
    [] lat = 85047336 -> 2048
    [] lat = 85049233 -> 1023
    [] lat = 85050181 -> 511
    [] lat = 85050655 -> 255
    [] lat = 85051128 -> 0
    [] lat = 85051129 -> 0
    [] lat = 89000000 -> -4271631

\* math.degrees(math.atan(math.sinh(math.pi - 2.0 * math.pi * y_norm))) at
\* y_norm = Y16 / LatScale, in micro-degrees (nearest); the entries are the
\* source's formula evaluated at each sample.
MercatorLatTable(Y16) ==
  CASE Y16 = 0 -> 85051129
    [] Y16 = 1 -> 85050655
    [] Y16 = 2 -> 85050181
    [] Y16 = 4 -> 85049233
    [] Y16 = 8 -> 85047336
    [] Y16 = 16 -> 85043541
    [] Y16 = 32 -> 85035942
    [] Y16 = 64 -> 85020708
    [] Y16 = 128 -> 84990100
    [] Y16 = 256 -> 84928321
    [] Y16 = 2048 -> 83979259
    [] Y16 = 4080 -> 82687480
    [] Y16 = 4095 -> 82676985
    [] Y16 = 4096 -> 82676285
    [] Y16 = 4097 -> 82675585
    [] Y16 = 4112 -> 82665073
    [] Y16 = 6144 -> 81093214
    [] Y16 = 8160 -> 79204309
    [] Y16 = 8176 -> 79187834
    [] Y16 = 8190 -> 79173398
    [] Y16 = 8191 -> 79172367
    [] Y16 = 8192 -> 79171335
    [] Y16 = 8193 -> 79170303
    [] Y16 = 8194 -> 79169270
    [] Y16 = 8208 -> 79154810
    [] Y16 = 8224 -> 79138260
    [] Y16 = 10240 -> 76840816
    [] Y16 = 12272 -> 74043723
    [] Y16 = 12287 -> 74021056
    [] Y16 = 12288 -> 74019543
    [] Y16 = 12289 -> 74018031
    [] Y16 = 12304 -> 73995328
    [] Y16 = 14336 -> 70612614
    [] Y16 = 16320 -> 66652977
    [] Y16 = 16352 -> 66583217
    [] Y16 = 16368 -> 66548263
    [] Y16 = 16380 -> 66522016
    [] Y16 = 16382 -> 66517639
    [] Y16 = 16383 -> 66515450
    [] Y16 = 16384 -> 66513260
    [] Y16 = 16385 -> 66511071
    [] Y16 = 16386 -> 66508882
    [] Y16 = 16388 -> 66504502
    [] Y16 = 16400 -> 66478208
    [] Y16 = 16416 -> 66443107
    [] Y16 = 16448 -> 66372755
    [] Y16 = 18432 -> 61606396
    [] Y16 = 20464 -> 55825973
    [] Y16 = 20479 -> 55779662
    [] Y16 = 20480 -> 55776573
    [] Y16 = 20481 -> 55773483
    [] Y16 = 20496 -> 55727110
    [] Y16 = 22528 -> 48922499
    [] Y16 = 24544 -> 41112469
    [] Y16 = 24560 -> 41046217
    [] Y16 = 24574 -> 40988192
    [] Y16 = 24575 -> 40984045
    [] Y16 = 24576 -> 40979898
    [] Y16 = 24577 -> 40975751
    [] Y16 = 24578 -> 40971604
    [] Y16 = 24592 -> 40913513
    [] Y16 = 24608 -> 40847060
    [] Y16 = 26624 -> 31952162
    [] Y16 = 28656 -> 22024546
    [] Y16 = 28671 -> 21948141
    [] Y16 = 28672 -> 21943046
    [] Y16 = 28673 -> 21937950
    [] Y16 = 28688 -> 21861499
    [] Y16 = 30720 -> 11178402
    [] Y16 = 32640 -> 703107
    [] Y16 = 32704 -> 351560
    [] Y16 = 32736 -> 175781
    [] Y16 = 32752 -> 87891
    [] Y16 = 32760 -> 43945
    [] Y16 = 32764 -> 21973
    [] Y16 = 32766 -> 10986
    [] Y16 = 32767 -> 5493
    [] Y16 = 32768 -> 0
    [] Y16 = 32769 -> -5493
    [] Y16 = 32770 -> -10986
    [] Y16 = 32772 -> -21973
    [] Y16 = 32776 -> -43945
    [] Y16 = 32784 -> -87891
    [] Y16 = 32800 -> -175781
    [] Y16 = 32832 -> -351560
    [] Y16 = 32896 -> -703107
    [] Y16 = 34816 -> -11178402
    [] Y16 = 36848 -> -21861499
    [] Y16 = 36863 -> -21937950
    [] Y16 = 36864 -> -21943046
    [] Y16 = 36865 -> -21948141
    [] Y16 = 36880 -> -22024546
    [] Y16 = 38912 -> -31952162
    [] Y16 = 40928 -> -40847060
    [] Y16 = 40944 -> -40913513
    [] Y16 = 40958 -> -40971604
    [] Y16 = 40959 -> -40975751
    [] Y16 = 40960 -> -40979898
    [] Y16 = 40961 -> -40984045
    [] Y16 = 40962 -> -40988192
    [] Y16 = 40976 -> -41046217
    [] Y16 = 40992 -> -41112469
    [] Y16 = 43008 -> -48922499
    [] Y16 = 45040 -> -55727110
    [] Y16 = 45055 -> -55773483
    [] Y16 = 45056 -> -55776573
    [] Y16 = 45057 -> -55779662
    [] Y16 = 45072 -> -55825973
    [] Y16 = 47104 -> -61606396
    [] Y16 = 49088 -> -66372755
    [] Y16 = 49120 -> -66443107
    [] Y16 = 49136 -> -66478208
    [] Y16 = 49148 -> -66504502
    [] Y16 = 49150 -> -66508882
    [] Y16 = 49151 -> -66511071
    [] Y16 = 49152 -> -66513260
    [] Y16 = 49153 -> -66515450
    [] Y16 = 49154 -> -66517639
    [] Y16 = 49156 -> -66522016
    [] Y16 = 49168 -> -66548263
    [] Y16 = 49184 -> -66583217
    [] Y16 = 49216 -> -66652977
    [] Y16 = 51200 -> -70612614
    [] Y16 = 53232 -> -73995328
    [] Y16 = 53247 -> -74018031
    [] Y16 = 53248 -> -74019543
    [] Y16 = 53249 -> -74021056
    [] Y16 = 53264 -> -74043723
    [] Y16 = 55296 -> -76840816
    [] Y16 = 57312 -> -79138260
    [] Y16 = 57328 -> -79154810
    [] Y16 = 57342 -> -79169270
    [] Y16 = 57343 -> -79170303
    [] Y16 = 57344 -> -79171335
    [] Y16 = 57345 -> -79172367
    [] Y16 = 57346 -> -79173398
    [] Y16 = 57360 -> -79187834
    [] Y16 = 57376 -> -79204309
    [] Y16 = 59392 -> -81093214
    [] Y16 = 61424 -> -82665073
    [] Y16 = 61439 -> -82675585
    [] Y16 = 61440 -> -82676285
    [] Y16 = 61441 -> -82676985
    [] Y16 = 61456 -> -82687480
    [] Y16 = 63488 -> -83979259
    [] Y16 = 65280 -> -84928321
    [] Y16 = 65408 -> -84990100
    [] Y16 = 65472 -> -85020708
    [] Y16 = 65504 -> -85035942
    [] Y16 = 65520 -> -85043541
    [] Y16 = 65528 -> -85047336
    [] Y16 = 65532 -> -85049233
    [] Y16 = 65534 -> -85050181
    [] Y16 = 65535 -> -85050655
    [] Y16 = 65536 -> -85051129

\* floor(a * 2^k / d) for 0 <= a, without leaving 32-bit integers:
\* q, r are quotient and remainder of a * 2^j by d
RECURSIVE ShiftDiv(_, _, _, _)
ShiftDiv(q, r, d, k) ==
  IF k = 0 THEN q
  ELSE ShiftDiv(2 * q + (IF 2 * r >= d THEN 1 ELSE 0), (2 * r) % d, d, k - 1)

\* int((lon + 180.0) / 360.0 * n), n = 2^z
XTileRound(lon, z) ==
  LET a == lon + Deg(180)
      b == IF a >= 0 THEN a ELSE -a
      q == ShiftDiv((2 * b) \div Deg(360), (2 * b) % Deg(360), Deg(360), z)
  IN  IF a >= 0 THEN (q + 1) \div 2 ELSE -((q + 1) \div 2)
XTile(lon, z) ==
  LET a == lon + Deg(180)
      b == IF a >= 0 THEN a ELSE -a
      q == ShiftDiv(b \div Deg(360), b % Deg(360), Deg(360), z)
  IN  IF a >= 0 THEN q ELSE -q

\* int(ytile), ytile = (1 - log(tan + sec) / pi) / 2 * n, n = 2^z
YTile(lat, z) == IntTrunc(MercatorYTable(lat), YScale \div (2^z))

latlon_to_tile_xy(lat, lon, z) == <<XTile(lon, z), YTile(lat, z)>>

\* x_norm * 360.0 - 180.0 with x_norm = X / D, D a power of two, to the
\* nearest micro-degree.  360e6 = 512 * 703125.
LonOfNorm(X, D) ==
  IF D <= 512
    THEN X * (512 \div D) * 703125 - Deg(180)
    ELSE LET s == D \div 512
         IN  ((X \div s) * 703125) + ((2 * (X % s) * 703125 + s) \div (2 * s))
               - Deg(180)

\* the inverse Mercator latitude at y_norm = Y / D, D a power of two
LatOfNorm(Y, D) == MercatorLatTable(Y * (LatScale \div D))

tile_pixel_to_lonlat(z, tx, ty, px, py, extent) ==
  <<LonOfNorm(tx * extent + px, (2^z) * extent),
    LatOfNorm(ty * extent + py, (2^z) * extent)>>

\* [(tx, ty) for tx in range(lo, hi + 1) for ty in range(lo, hi + 1)]
RangeProduct(xlo, xhi, ylo, yhi) ==
  LET w == IF xhi >= xlo THEN xhi - xlo + 1 ELSE 0
      h == IF yhi >= ylo THEN yhi - ylo + 1 ELSE 0
  IN  [i \in 1..(w * h) |-> <<xlo + ((i - 1) \div h), ylo + ((i - 1) % h)>>]

tiles_for_bbox_exclusive(min_lat, min_lon, max_lat, max_lon, z) ==
  LET a == latlon_to_tile_xy(min_lat, min_lon, z)
      b == latlon_to_tile_xy(max_lat, max_lon, z)
  IN  RangeProduct(Min(a[1], b[1]), Max(a[1], b[1]) - 1,
                   Min(b[2], a[2]), Max(b[2], a[2]) - 1)
tiles_for_bbox(min_lat, min_lon, max_lat, max_lon, z) ==
  LET tx_min == latlon_to_tile_xy(min_lat, min_lon, z)[1]
      ty_max == latlon_to_tile_xy(min_lat, min_lon, z)[2]
      tx_max == latlon_to_tile_xy(max_lat, max_lon, z)[1]
      ty_min == latlon_to_tile_xy(max_lat, max_lon, z)[2]
  IN  RangeProduct(Min(tx_min, tx_max), Max(tx_min, tx_max),
                   Min(ty_min, ty_max), Max(ty_min, ty_max))

-----------------------------------------------------------------------------
(* Geometry reprojector: collect_all_data.py, lines 82-102 *)

\* `not geom`: None and the empty dict are falsy
IsFalsy(v) == v = PyNone \/ DOMAIN v = {}

\* conv_point applied along a list of points
ConvLineDropLast(line, z, tx, ty, extent) ==
  [i \in 1..(IF Len(line) > 1 THEN Len(line) - 1 ELSE Len(line)) |->
     tile_pixel_to_lonlat(z, tx, ty, line[i][1], line[i][2], extent)]
ConvLine(line, z, tx, ty, extent) ==
  [i \in 1..Len(line) |->
     tile_pixel_to_lonlat(z, tx, ty, line[i][1], line[i][2], extent)]

convert_geometry(geom, z, tx, ty, extent) ==
  IF IsFalsy(geom) \/ "type" \notin DOMAIN geom
       \/ "coordinates" \notin DOMAIN geom
  THEN PyNone
  ELSE LET typ == geom.type
           coords == geom.coordinates
       IN  CASE typ = "Point" ->
                  [type |-> "Point",
                   coordinates |->
                     tile_pixel_to_lonlat(z, tx, ty, coords[1], coords[2], extent)]
             [] typ = "LineString" ->
                  [type |-> "LineString",
                   coordinates |-> ConvLine(coords, z, tx, ty, extent)]
             [] typ = "MultiLineString" ->
                  [type |-> "MultiLineString",
                   coordinates |->
                     [p \in 1..Len(coords) |-> ConvLine(coords[p], z, tx, ty, extent)]]
             [] typ = "Polygon" ->
                  [type |-> "Polygon",
                   coordinates |->
                     [r \in 1..Len(coords) |-> ConvLine(coords[r], z, tx, ty, extent)]]
             [] OTHER -> PyNone

-----------------------------------------------------------------------------
(* Segment sampler helpers: collect_speed_data.py, lines 52-75 *)

\* the returned tuple (lat, lon); (None, None) is NoCenter
CenterPoint(lat, lon) == [lat |-> lat, lon |-> lon]
NoCenter == [none |-> TRUE]

\* coords[len(coords) // 2], then (lon, lat) -> (lat, lon); an empty list
\* has no element at index 0: IndexError
MidPointCeil(coords) ==
  IF Len(coords) = 0 THEN Raised("IndexError")
  ELSE LET mid == coords[((Len(coords) + 1) \div 2)]
       IN  CenterPoint(mid[2], mid[1])
MidPoint(coords) ==
  IF Len(coords) = 0 THEN Raised("IndexError")
  ELSE LET mid == coords[(Len(coords) \div 2) + 1]
       IN  CenterPoint(mid[2], mid[1])

extract_center_point(geometry) ==
  CASE geometry.type = "LineString" -> MidPoint(geometry.coordinates)
    [] geometry.type = "MultiLineString" ->
         IF Len(geometry.coordinates) = 0 THEN Raised("IndexError")
         ELSE MidPoint(geometry.coordinates[1])
    [] geometry.type = "Point" ->
         CenterPoint(geometry.coordinates[2], geometry.coordinates[1])
    [] OTHER -> NoCenter

-----------------------------------------------------------------------------
(* Renderer colour table: visualize_traffic.py, lines 28-41 *)

GREEN == <<0, 255, 0>>
YELLOW == <<0, 255, 255>>
ORANGE == <<0, 165, 255>>
RED == <<0, 0, 255>>

\* level = max(0, min(1, traffic_level)), in millionths
Clamp(traffic_level) == Max(0, Min(Micro, traffic_level))

get_color_strict(traffic_level) ==
  LET level == Clamp(traffic_level)
  IN  IF level > 700000 THEN GREEN
      ELSE IF level > 500000 THEN YELLOW
      ELSE IF level > 300000 THEN ORANGE
      ELSE RED
get_color_for_traffic_level(traffic_level) ==
  LET level == Clamp(traffic_level)
  IN  IF level >= 700000 THEN GREEN
      ELSE IF level >= 500000 THEN YELLOW
      ELSE IF level >= 300000 THEN ORANGE
      ELSE RED

-----------------------------------------------------------------------------
(* Sample inputs of the pure functions *)

Zooms == 0..MaxZoom
\* ZOOM = 15
ZOOM == 15
\* extent=4096 is the default; a layer may declare another
DefaultExtent == 4096
Extents == {256, DefaultExtent}
\* the Iasi bounding box, MIN_LAT, MIN_LON = 47.10, 27.52 and
\* MAX_LAT, MAX_LON = 47.22, 27.66, in micro-degrees
MIN_LAT == 47100000
MIN_LON == 27520000
MAX_LAT == 47220000
MAX_LON == 27660000

\* Web-Mercator covers latitudes up to atan(sinh(pi)) = 85.0511287... degrees
InRange(lat, lon) ==
  /\ -85051128 <= lat /\ lat <= 85051128
  /\ -Deg(180) <= lon /\ lon < Deg(180)

LatSamples ==
  {-89000000, -85000000, -60000000, 0, 30000000, MIN_LAT, 47160000, MAX_LAT,
   60000000, 85000000, 85051128, 89000000}
LonSamples ==
  {-Deg(180), -Deg(90), -1, 0, MIN_LON, MAX_LON, Deg(90), Deg(180) - 1, Deg(180)}
BoxLats == {-60000000, 0, MIN_LAT, MAX_LAT, 85000000, 89000000}
BoxLons == {-Deg(180), -1, 0, MIN_LON, MAX_LON, Deg(90)}

PixelSamples(extent) == {0, 1, extent \div 2, extent - 1}

\* sequences over S of length 0..n
RECURSIVE SeqsUpTo(_, _)
SeqsUpTo(S, n) ==
  IF n = 0 THEN {<<>>}
  ELSE LET shorter == SeqsUpTo(S, n - 1)
       IN  shorter \cup {Append(s, e) : s \in {t \in shorter : Len(t) = n - 1}, e \in S}

\* tile-pixel coordinate pairs valid under every sampled extent
PixelPairs == {<<0, 1>>, <<1, 0>>, <<1, 1>>}
PixelLines == SeqsUpTo(PixelPairs, MaxPts)
PixelPartLines == SeqsUpTo({<<0, 1>>, <<1, 0>>}, MaxPts)
PixelParts == SeqsUpTo(PixelPartLines, MaxParts)

\* what mapbox_vector_tile.decode can hand over as a feature's geometry
\* (coordinates nested as the type requires), and the malformed geometries
\* convert_geometry guards against.  The families are kept apart: each is a
\* set of values of one shape.
MalformedGeometries ==
  {PyNone, EmptyDict, [type |-> "Point"], [type |-> "LineString"],
   [coordinates |-> <<0, 1>>]}
PointGeometries == {[type |-> "Point", coordinates |-> p] : p \in PixelPairs}
LineGeometries ==
  {[type |-> t, coordinates |-> l] :
     t \in {"LineString", "MultiPoint"}, l \in PixelLines}
PartGeometries ==
  {[type |-> t, coordinates |-> c] :
     t \in {"MultiLineString", "Polygon"}, c \in PixelParts}
DeepGeometries ==
  {[type |-> "MultiPolygon", coordinates |-> <<c>>] : c \in PixelParts}

\* geographic (lon, lat) pairs, micro-degrees
GeoPairs ==
  {<<27580000, 47160000>>, <<27590000, 47170000>>, <<27600000, 47180000>>}
GeoLines == SeqsUpTo(GeoPairs, MaxPts)
GeoPartLines == SeqsUpTo({<<27580000, 47160000>>, <<0, 47170000>>}, MaxPts)
GeoParts == SeqsUpTo(GeoPartLines, MaxParts)

GeoPointGeometries ==
  {[type |-> "Point", coordinates |-> p] : p \in GeoPairs \cup {<<0, 47170000>>}}
GeoLineGeometries ==
  {[type |-> "LineString", coordinates |-> l] : l \in GeoLines \cup GeoPartLines}
GeoPartGeometries ==
  {[type |-> t, coordinates |-> c] :
     t \in {"MultiLineString", "Polygon"}, c \in GeoParts}

\* traffic levels, millionths
LevelSamples ==
  {-1000000, -1, 0, 1, 299999, 300000, 300001, 499999, 500000, 500001,
   699999, 700000, 700001, 999999, 1000000, 1000001, 1500000}

LatLonCalls ==
  {[op |-> "latlon_to_tile_xy", lat |-> lat, lon |-> lon, z |-> z] :
     lat \in LatSamples, lon \in LonSamples, z \in Zooms \cup {ZOOM}}

TilePixelCallsAt(z, e) ==
  {[op |-> "tile_pixel_to_lonlat", z |-> z, tx |-> tx, ty |-> ty,
    px |-> px, py |-> py, extent |-> e] :
     tx \in 0..(2^z - 1), ty \in 0..(2^z - 1),
     px \in PixelSamples(e), py \in PixelSamples(e)}
TilePixelCalls == UNION {TilePixelCallsAt(z, e) : z \in Zooms, e \in Extents}

BBoxCalls ==
  {[op |-> "tiles_for_bbox", min_lat |-> a, min_lon |-> b, max_lat |-> c,
    max_lon |-> d, z |-> z] :
     a \in BoxLats, b \in BoxLons, c \in BoxLats, d \in BoxLons, z \in Zooms}
  \cup {[op |-> "tiles_for_bbox", min_lat |-> MIN_LAT, min_lon |-> MIN_LON,
         max_lat |-> MAX_LAT, max_lon |-> MAX_LON, z |-> ZOOM]}

ConvertCalls(geometries) ==
  {[op |-> "convert_geometry", geom |-> g, z |-> z, tx |-> 2^z - 1, ty |-> 0,
    extent |-> e] : g \in geometries, z \in {0, MaxZoom}, e \in Extents}

CenterCalls(geometries) ==
  {[op |-> "extract_center_point", geometry |-> g] : g \in geometries}

ColorCalls ==
  {[op |-> "get_color_for_traffic_level", traffic_level |-> l] : l \in LevelSamples}

-----------------------------------------------------------------------------
(* Pure-function harness: the inputs are drawn in InitPure, one action per  *)
(* function applies it to the drawn arguments.                              *)

Returned(v) == [value |-> v]

Idle == [py |-> "idle"]

MainIdle ==
  /\ pc = "idle" /\ cfg = Idle /\ tiles = <<>> /\ ti = 0
  /\ all_features = <<>> /\ all_records = <<>> /\ fetched = <<>>
  /\ incident_resp = Idle /\ log = <<>> /\ clock = 0 /\ files = EmptyDict

SamplerIdle ==
  /\ s_pc = "idle" /\ s_input = <<>> /\ s_idx = 0 /\ raw_data = <<>>
  /\ s_queries = <<>> /\ s_log = <<>> /\ s_saved = Idle

RenderIdle ==
  /\ v_pc = "idle" /\ geojson_data = Idle /\ segments = <<>> /\ seg_idx = 0
  /\ line_idx = 0 /\ image = <<>> /\ total_lines = 0 /\ v_saved = Idle

InitPure ==
  /\ \/ call \in LatLonCalls
     \/ call \in TilePixelCalls
     \/ call \in BBoxCalls
     \/ call \in ConvertCalls(MalformedGeometries)
     \/ call \in ConvertCalls(PointGeometries)
     \/ call \in ConvertCalls(LineGeometries)
     \/ call \in ConvertCalls(PartGeometries)
     \/ call \in ConvertCalls(DeepGeometries)
     \/ call \in CenterCalls(GeoPointGeometries)
     \/ call \in CenterCalls(GeoLineGeometries)
     \/ call \in CenterCalls(GeoPartGeometries)
     \/ call \in ColorCalls
  /\ ret = Pending
  /\ MainIdle
  /\ SamplerIdle
  /\ RenderIdle

Apply_latlon_to_tile_xy ==
  /\ ret = Pending /\ call.op = "latlon_to_tile_xy"
  /\ ret' = Returned(latlon_to_tile_xy(call.lat, call.lon, call.z))
  /\ UNCHANGED <<call, mainVars, samplerVars, renderVars>>

Apply_tile_pixel_to_lonlat ==
  /\ ret = Pending /\ call.op = "tile_pixel_to_lonlat"
  /\ ret' = Returned(tile_pixel_to_lonlat(call.z, call.tx, call.ty, call.px,
                                          call.py, call.extent))
  /\ UNCHANGED <<call, mainVars, samplerVars, renderVars>>

Apply_tiles_for_bbox ==
  /\ ret = Pending /\ call.op = "tiles_for_bbox"
  /\ ret' = Returned(tiles_for_bbox(call.min_lat, call.min_lon, call.max_lat,
                                    call.max_lon, call.z))
  /\ UNCHANGED <<call, mainVars, samplerVars, renderVars>>

Apply_convert_geometry ==
  /\ ret = Pending /\ call.op = "convert_geometry"
  /\ ret' = Returned(convert_geometry(call.geom, call.z, call.tx, call.ty,
                                      call.extent))
  /\ UNCHANGED <<call, mainVars, samplerVars, renderVars>>

Apply_extract_center_point ==
  /\ ret = Pending /\ call.op = "extract_center_point"
  /\ ret' = Returned(extract_center_point(call.geometry))
  /\ UNCHANGED <<call, mainVars, samplerVars, renderVars>>

Apply_get_color_for_traffic_level ==
  /\ ret = Pending /\ call.op = "get_color_for_traffic_level"
  /\ ret' = Returned(get_color_for_traffic_level(call.traffic_level))
  /\ UNCHANGED <<call, mainVars, samplerVars, renderVars>>

NextPure ==
  \/ Apply_latlon_to_tile_xy
  \/ Apply_tile_pixel_to_lonlat
  \/ Apply_tiles_for_bbox
  \/ Apply_convert_geometry
  \/ Apply_extract_center_point
  \/ Apply_get_color_for_traffic_level

SpecPure == InitPure /\ [][NextPure]_vars

-----------------------------------------------------------------------------
(* Claims about the pure functions, checked under SpecPure *)

Abs(a) == IF a >= 0 THEN a ELSE -a
HasReturned == "value" \in DOMAIN ret
Called(op) == call.op = op /\ HasReturned

\* angular width and height of a tile, micro-degrees
TileWidth(z) == Deg(360) \div (2^z)
TileHeight(z, ty) == LatOfNorm(ty, 2^z) - LatOfNorm(ty + 1, 2^z)

\* C2: tiles_for_bbox returns every (x, y) of the inclusive rectangle between
\* the two corner tiles exactly once and nothing else; a single-point box
\* gives exactly the tile of the point; corners in two x-adjacent tiles give
\* exactly 2 x rows tiles.
C2_TilesForBBox ==
  Called("tiles_for_bbox") =>
    LET r == ret.value
        a == latlon_to_tile_xy(call.min_lat, call.min_lon, call.z)
        b == latlon_to_tile_xy(call.max_lat, call.max_lon, call.z)
        xlo == Min(a[1], b[1])
        xhi == Max(a[1], b[1])
        ylo == Min(a[2], b[2])
        yhi == Max(a[2], b[2])
    IN  /\ \A x \in xlo..xhi, y \in ylo..yhi :
             Cardinality({i \in 1..Len(r) : r[i] = <<x, y>>}) = 1
        /\ \A i \in 1..Len(r) : r[i][1] \in xlo..xhi /\ r[i][2] \in ylo..yhi
        /\ (call.min_lat = call.max_lat /\ call.min_lon = call.max_lon)
             => r = <<a>>
        /\ (xhi - xlo = 1) => Len(r) = 2 * (yhi - ylo + 1)

C2_Witness ==
  /\ Called("tiles_for_bbox")
  /\ LET a == latlon_to_tile_xy(call.min_lat, call.min_lon, call.z)
         b == latlon_to_tile_xy(call.max_lat, call.max_lon, call.z)
     IN  /\ Abs(a[1] - b[1]) = 1
         /\ Abs(a[2] - b[2]) = 1
         /\ Len(ret.value) = 4

\* C3: convert_geometry returns None exactly for a missing or empty geometry,
\* one without 'type', one without 'coordinates', or one of a type other than
\* Point, LineString, MultiLineString, Polygon; otherwise the result has the
\* same type, the same number of parts, the same number of vertices in each
\* part, and vertex i of the result is the reprojection of vertex i.
KnownTypes == {"Point", "LineString", "MultiLineString", "Polygon"}

IsPair(c) == DOMAIN c = 1..2

SameLine(inp, out, c) ==
  /\ Len(out) = Len(inp)
  /\ \A i \in 1..Len(inp) :
       /\ IsPair(out[i])
       /\ out[i] = tile_pixel_to_lonlat(c.z, c.tx, c.ty, inp[i][1], inp[i][2], c.extent)

C3_ConvertGeometry ==
  Called("convert_geometry") =>
    LET g == call.geom
        r == ret.value
        absent == \/ g = PyNone
                  \/ DOMAIN g = {}
                  \/ "type" \notin DOMAIN g
                  \/ "coordinates" \notin DOMAIN g
                  \/ g.type \notin KnownTypes
    IN  /\ absent <=> (r = PyNone)
        /\ ~absent =>
             /\ DOMAIN r = {"type", "coordinates"}
             /\ r.type = g.type
             /\ CASE g.type = "Point" -> IsPair(r.coordinates)
                  [] g.type = "LineString" ->
                       SameLine(g.coordinates, r.coordinates, call)
                  [] OTHER ->
                       /\ Len(r.coordinates) = Len(g.coordinates)
                       /\ \A p \in 1..Len(g.coordinates) :
                            SameLine(g.coordinates[p], r.coordinates[p], call)

C3_Witness ==
  /\ Called("convert_geometry")
  /\ "type" \in DOMAIN call.geom /\ "coordinates" \in DOMAIN call.geom
  /\ call.geom.type = "LineString"
  /\ Len(call.geom.coordinates) = MaxPts
  /\ ret.value # PyNone
  /\ Len(ret.value.coordinates) = MaxPts

\* C5: extract_center_point returns (lat, lon) of the element at index
\* floor(length / 2) of a LineString, of the first sub-line of a
\* MultiLineString, and of the pair of a Point (stored as (lon, lat)).
C5_CenterPoint ==
  Called("extract_center_point") =>
    LET g == call.geometry
        r == ret.value
        first == IF g.type = "MultiLineString" THEN g.coordinates[1]
                 ELSE g.coordinates
        k == Len(first) \div 2
    IN  /\ (g.type = "Point") => r = CenterPoint(g.coordinates[2], g.coordinates[1])
        /\ (g.type = "LineString" /\ Len(g.coordinates) > 0)
             => r = CenterPoint(g.coordinates[k + 1][2], g.coordinates[k + 1][1])
        /\ (g.type = "MultiLineString" /\ Len(g.coordinates) > 0
              /\ Len(g.coordinates[1]) > 0)
             => r = CenterPoint(first[k + 1][2], first[k + 1][1])
        /\ (g.type = "LineString"
              /\ g.coordinates = <<<<27580000, 47160000>>, <<27590000, 47170000>>,
                                   <<27600000, 47180000>>>>)
             => r = CenterPoint(47170000, 27590000)

C5_Witness ==
  /\ Called("extract_center_point")
  /\ call.geometry.type = "MultiLineString"
  /\ Len(call.geometry.coordinates) = 2
  /\ Len(call.geometry.coordinates[1]) = 2
  /\ call.geometry.coordinates[1][1] # call.geometry.coordinates[1][2]
  /\ ret.value = CenterPoint(call.geometry.coordinates[1][2][2],
                           call.geometry.coordinates[1][2][1])

\* C6: the level is clamped into [0, 1]; >= 0.7 is green, >= 0.5 yellow,
\* >= 0.3 orange, anything lower red; above 1 is green and below 0 is red.
C6_ColorForLevel ==
  Called("get_color_for_traffic_level") =>
    LET l == call.traffic_level
        c == IF l < 0 THEN 0 ELSE IF l > Micro THEN Micro ELSE l
        r == ret.value
    IN  /\ (r = GREEN) <=> (c >= 700000)
        /\ (r = YELLOW) <=> (500000 <= c /\ c < 700000)
        /\ (r = ORANGE) <=> (300000 <= c /\ c < 500000)
        /\ (r = RED) <=> (c < 300000)
        /\ (l > Micro) => r = GREEN
        /\ (l < 0) => r = RED

C6_Witness ==
  /\ Called("get_color_for_traffic_level")
  /\ call.traffic_level = 700000
  /\ ret.value = GREEN

\* C9: for an in-range point, the midpoint of its tile reprojects to within
\* one tile width and height of the point; and a pixel strictly inside an
\* in-range tile reprojects to a point that maps back to that tile.
C9_RoundTrip ==
  /\ (Called("latlon_to_tile_xy") /\ InRange(call.lat, call.lon)
        /\ call.z \in Zooms) =>
       \A e \in Extents :
         LET t == ret.value
             p == tile_pixel_to_lonlat(call.z, t[1], t[2], e \div 2, e \div 2, e)
         IN  /\ Abs(p[1] - call.lon) <= TileWidth(call.z)
             /\ Abs(p[2] - call.lat) <= TileHeight(call.z, t[2])
  /\ (Called("tile_pixel_to_lonlat")
        /\ 0 < call.px /\ call.px < call.extent
        /\ 0 < call.py /\ call.py < call.extent) =>
       latlon_to_tile_xy(ret.value[2], ret.value[1], call.z) = <<call.tx, call.ty>>

C9_Witness ==
  /\ Called("tile_pixel_to_lonlat")
  /\ call.z = MaxZoom /\ call.tx = 2^MaxZoom - 1 /\ call.ty = 1
  /\ call.px = call.extent - 1 /\ call.py = call.extent - 1
  /\ latlon_to_tile_xy(ret.value[2], ret.value[1], call.z) = <<call.tx, call.ty>>

-----------------------------------------------------------------------------
(* Feature collector: collect_all_data.py, lines 105-165 *)

\* Decoded tiles the tile source can answer with.  A decoded tile is a dict
\* layer name -> layer object, kept here as the list of its items in key
\* order; a layer object may lack "features" and "extent", a raw feature may
\* lack "geometry" and "properties".
LineFeature(id, line) ==
  [geometry |-> [type |-> "LineString", coordinates |-> line],
   properties |-> [id |-> id, road_type |-> "Major road", traffic_level |-> 650000]]

DecodedOneLine ==
  <<[name |-> "Traffic flow",
     obj |-> [extent |-> DefaultExtent,
              features |-> <<LineFeature("a", <<<<1, 1>>, <<1, 0>>, <<0, 1>>>>)>>]]>>

DecodedMixed ==
  <<[name |-> "Traffic flow",
     obj |-> [features |->
       <<[properties |-> [id |-> "b"]],
         [geometry |-> EmptyDict, properties |-> [id |-> "c"]],
         [geometry |-> [type |-> "MultiPoint", coordinates |-> <<<<0, 1>>>>],
          properties |-> [id |-> "d"]],
         [geometry |-> [type |-> "Point", coordinates |-> <<1, 1>>],
          properties |-> [id |-> "e", layer |-> "provider", tile_x |-> -7,
                          tile_y |-> -7, tile_z |-> -7, timestamp |-> -7]],
         [geometry |-> [type |-> "Polygon",
                        coordinates |-> <<<<<<0, 1>>, <<1, 1>>, <<0, 1>>>>>>]],
         [geometry |-> [type |-> "LineString"], properties |-> [id |-> "f"]]>>]],
    [name |-> "Empty layer", obj |-> [extent |-> 256]],
    [name |-> "Traffic flow tubes",
     obj |-> [extent |-> 256,
              features |->
                <<[geometry |-> [type |-> "MultiLineString",
                                 coordinates |-> <<<<<<0, 1>>, <<1, 1>>>>, <<>>>>],
                   properties |-> [id |-> "g"]]>>]]>>

DecodedTiles == <<DecodedOneLine, DecodedMixed>>

\* the failures of one tile's fetch, by the call of the try block that
\* raises: "request" is requests.get or raise_for_status (a transport error,
\* a timeout, an HTTP error status), "decode" is mapbox_vector_tile.decode.
\* Both raise before the tile records any feature, and one handler takes both.
FetchErrors == {"request", "decode"}

\* one raw feature of a decoded layer: the feature recorded for it, as a list
\* of zero or one element
RecordFeatureKeep(feat, layer_name, extent, tx, ty, zoom, now) ==
  LET geom_raw == DictGet(feat, "geometry", PyNone)
  IN  IF IsFalsy(geom_raw) \/ "type" \notin DOMAIN geom_raw THEN <<>>
      ELSE LET geom == convert_geometry(geom_raw, zoom, tx, ty, extent)
           IN  IF IsFalsy(geom) THEN <<>>
               ELSE <<[type |-> "Feature",
                       geometry |-> geom,
                       properties |->
                         DictUpdateKeep(DictGet(feat, "properties", EmptyDict),
                                    [layer |-> layer_name, tile_x |-> tx,
                                     tile_y |-> ty, tile_z |-> zoom,
                                     timestamp |-> now])]>>
RecordFeature(feat, layer_name, extent, tx, ty, zoom, now) ==
  LET geom_raw == DictGet(feat, "geometry", PyNone)
  IN  IF IsFalsy(geom_raw) \/ "type" \notin DOMAIN geom_raw THEN <<>>
      ELSE LET geom == convert_geometry(geom_raw, zoom, tx, ty, extent)
           IN  IF IsFalsy(geom) THEN <<>>
               ELSE <<[type |-> "Feature",
                       geometry |-> geom,
                       properties |->
                         DictUpdate(DictGet(feat, "properties", EmptyDict),
                                    [layer |-> layer_name, tile_x |-> tx,
                                     tile_y |-> ty, tile_z |-> zoom,
                                     timestamp |-> now])]>>

\* for feat in features
RECURSIVE RecordLayer(_, _, _, _, _, _, _)
RecordLayer(feats, layer_name, extent, tx, ty, zoom, now) ==
  IF feats = <<>> THEN <<>>
  ELSE RecordFeature(Head(feats), layer_name, extent, tx, ty, zoom, now)
         \o RecordLayer(Tail(feats), layer_name, extent, tx, ty, zoom, now)

\* for layer_name in decoded.keys()
RECURSIVE RecordTile(_, _, _, _, _)
RecordTile(decoded, tx, ty, zoom, now) ==
  IF decoded = <<>> THEN <<>>
  ELSE LET layer == Head(decoded)
           features == DictGet(layer.obj, "features", <<>>)
           extent == DictGet(layer.obj, "extent", DefaultExtent)
       IN  RecordLayer(features, layer.name, extent, tx, ty, zoom, now)
             \o RecordTile(Tail(decoded), tx, ty, zoom, now)

PropsOf(features) == [i \in 1..Len(features) |-> features[i].properties]

TileRequest(tile) == [ev |-> "request", kind |-> "tile", tile |-> tile]
IncidentRequest == [ev |-> "request", kind |-> "incidents", tile |-> <<>>]
Sleep == [ev |-> "sleep", kind |-> "delay", tile |-> <<>>]

\* The run's configuration.  The program fixes one bounding box at ZOOM = 15
\* (252 tiles); the collector is run here on boxes of at most MaxTiles tiles.
ConfigChoices ==
  [min_lat : {0, MIN_LAT}, min_lon : {-1, MIN_LON},
   max_lat : {MAX_LAT}, max_lon : {MAX_LON, Deg(135)}, zoom : Zooms]
TilesOf(c) == tiles_for_bbox(c.min_lat, c.min_lon, c.max_lat, c.max_lon, c.zoom)
Configs == {c \in ConfigChoices : Len(TilesOf(c)) <= MaxTiles}


InitMain ==
  /\ cfg \in Configs
  /\ pc = "start"
  /\ tiles = <<>> /\ ti = 0
  /\ all_features = <<>> /\ all_records = <<>>
  /\ fetched = <<>> /\ incident_resp = Idle
  /\ log = <<>> /\ clock = 0 /\ files = EmptyDict
  /\ call = Idle /\ ret = Pending
  /\ SamplerIdle
  /\ RenderIdle

\* main: ensure_output_dir(), then collect_traffic_flow up to its loop
Main_Start ==
  /\ pc = "start"
  /\ tiles' = TilesOf(cfg)
  /\ ti' = 1
  /\ all_features' = <<>>
  /\ all_records' = <<>>
  /\ pc' = "flow"
  /\ clock' = clock + 1
  /\ UNCHANGED <<cfg, fetched, incident_resp, log, files, pureVars, samplerVars, renderVars>>

\* one iteration whose try block raises before any feature is recorded:
\* except Exception: print; continue
Tile_Failed_Abort ==
  /\ pc = "flow" /\ ti <= Len(tiles)
  /\ \E err \in FetchErrors :
       fetched' = Append(fetched, Raised(err))
  /\ log' = Append(log, TileRequest(tiles[ti]))
  /\ ti' = Len(tiles) + 1
  /\ clock' = clock + 1
  /\ UNCHANGED <<pc, cfg, tiles, all_features, all_records, incident_resp,
                 files, pureVars, samplerVars, renderVars>>
Tile_Failed ==
  /\ pc = "flow" /\ ti <= Len(tiles)
  /\ \E err \in FetchErrors :
       fetched' = Append(fetched, Raised(err))
  /\ log' = Append(log, TileRequest(tiles[ti]))
  /\ ti' = ti + 1
  /\ clock' = clock + 1
  /\ UNCHANGED <<pc, cfg, tiles, all_features, all_records, incident_resp,
                 files, pureVars, samplerVars, renderVars>>

\* one iteration whose fetch and decode succeed; time.sleep(0.2) ends it
Tile_Collected ==
  /\ pc = "flow" /\ ti <= Len(tiles)
  /\ \E k \in 1..Len(DecodedTiles) :
       LET new == RecordTile(DecodedTiles[k], tiles[ti][1], tiles[ti][2],
                             cfg.zoom, clock)
       IN  /\ fetched' = Append(fetched, [decoded |-> k])
           /\ all_features' = all_features \o new
           /\ all_records' = all_records \o PropsOf(new)
  /\ log' = log \o <<TileRequest(tiles[ti]), Sleep>>
  /\ ti' = ti + 1
  /\ clock' = clock + 2
  /\ UNCHANGED <<pc, cfg, tiles, incident_resp, files, pureVars, samplerVars, renderVars>>

\* after the loop: save_json(fc), save_ndjson(all_records)
Flow_Save ==
  /\ pc = "flow" /\ ti > Len(tiles)
  /\ files' = DictUpdate(files,
       ("traffic_flow_tiles.geojson" :>
           [type |-> "FeatureCollection", features |-> all_features])
       @@ ("traffic_flow_records.ndjson" :> all_records))
  /\ pc' = "incidents"
  /\ clock' = clock + 1
  /\ UNCHANGED <<cfg, tiles, ti, all_features, all_records, fetched,
                 incident_resp, log, pureVars, samplerVars, renderVars>>

-----------------------------------------------------------------------------
(* Incident collector: collect_all_data.py, lines 168-209 *)

Incident1 ==
  [type |-> "Feature",
   geometry |-> [type |-> "Point", coordinates |-> <<27600000, 47150000>>],
   properties |-> [id |-> "i1", iconCategory |-> 6, timestamp |-> -7]]
Incident2 == [properties |-> [id |-> "i2"]]
Incident3 == [geometry |-> [type |-> "Point", coordinates |-> <<27610000, 47160000>>]]
\* a returned incident that cannot be reshaped: "properties": null makes
\* {**None} raise TypeError; a null incident has no .get (AttributeError)
IncidentNullProps == [geometry |-> PyNone, properties |-> PyNone, id |-> "i4"]

\* what the incident source can answer: an exception of requests.get or
\* raise_for_status ("request": transport, timeout, HTTP status), one of
\* resp.json() ("json"), or the decoded document
IncidentAnswers ==
  <<Raised("request"), Raised("json"),
    [data |-> EmptyDict],
    [data |-> [incidents |-> <<>>]],
    [data |-> [incidents |-> <<Incident1, Incident2, Incident3>>]],
    [data |-> [incidents |-> <<Incident1, IncidentNullProps, Incident2>>]],
    [data |-> [incidents |-> <<Incident1, PyNone>>]]>>

CannotReshape(incident) ==
  \/ incident = PyNone
  \/ DictGet(incident, "properties", EmptyDict) = PyNone

IncidentFeature(incident, now) ==
  [type |-> "Feature",
   geometry |-> DictGet(incident, "geometry", PyNone),
   properties |-> DictUpdate(DictGet(incident, "properties", EmptyDict),
                             [timestamp |-> now])]

\* the files written by collect_traffic_incidents on answer, up to the point
\* where its try block raises, if it does
IncidentFilesPartial(answer, now) ==
  IF IsRaised(answer) THEN EmptyDict
  ELSE LET data == answer.data
           raw == "traffic_incidents_raw.json" :> data
           incidents == IF "incidents" \in DOMAIN data THEN data.incidents ELSE <<>>
           firstbad == IF \E i \in 1..Len(incidents) : CannotReshape(incidents[i])
                       THEN (CHOOSE i \in 1..Len(incidents) :
                               /\ CannotReshape(incidents[i])
                               /\ \A j \in 1..(i - 1) : ~CannotReshape(incidents[j])) - 1
                       ELSE Len(incidents)
           features == [i \in 1..firstbad |-> IncidentFeature(incidents[i], now)]
       IN  raw @@ ("traffic_incidents.geojson" :>
                      [type |-> "FeatureCollection", features |-> features])
               @@ ("traffic_incidents_records.ndjson" :> PropsOf(features))
IncidentFiles(answer, now) ==
  IF IsRaised(answer) THEN EmptyDict
  ELSE LET data == answer.data
           raw == "traffic_incidents_raw.json" :> data
           incidents == IF "incidents" \in DOMAIN data THEN data.incidents ELSE <<>>
       IN  IF \E i \in 1..Len(incidents) : CannotReshape(incidents[i])
           THEN raw
           ELSE LET features ==
                      [i \in 1..Len(incidents) |-> IncidentFeature(incidents[i], now)]
                IN  raw @@ ("traffic_incidents.geojson" :>
                              [type |-> "FeatureCollection", features |-> features])
                        @@ ("traffic_incidents_records.ndjson" :> PropsOf(features))

\* collect_traffic_incidents: every exception is caught; main goes on
Collect_Incidents ==
  /\ pc = "incidents"
  /\ \E k \in 1..Len(IncidentAnswers) :
       /\ incident_resp' = IncidentAnswers[k]
       /\ files' = DictUpdate(files, IncidentFiles(IncidentAnswers[k], clock))
  /\ log' = Append(log, IncidentRequest)
  /\ pc' = "summary"
  /\ clock' = clock + 1
  /\ UNCHANGED <<cfg, tiles, ti, all_features, all_records, fetched,
                 pureVars, samplerVars, renderVars>>

\* generate_summary (lines 212-240): lists the output directory into
\* collection_summary.json; the byte sizes are left out
Generate_Summary ==
  /\ pc = "summary"
  /\ files' = DictUpdate(files,
       "collection_summary.json" :>
         [collection_time |-> clock,
          location |-> "Iasi, Romania",
          bounding_box |-> [min_lat |-> MIN_LAT, min_lon |-> MIN_LON,
                            max_lat |-> MAX_LAT, max_lon |-> MAX_LON],
          files_collected |-> DOMAIN files])
  /\ pc' = "done"
  /\ clock' = clock + 1
  /\ UNCHANGED <<cfg, tiles, ti, all_features, all_records, fetched,
                 incident_resp, log, pureVars, samplerVars, renderVars>>

NextMain ==
  \/ Main_Start
  \/ Tile_Failed
  \/ Tile_Collected
  \/ Flow_Save
  \/ Collect_Incidents
  \/ Generate_Summary

Spec == InitMain /\ [][NextMain]_vars

-----------------------------------------------------------------------------
(* Segment sampler: collect_speed_data.py, lines 24-49 and 78-172 *)

\* for idx, feature in enumerate(features[:1], 1)
SAMPLE_LIMIT == 1

\* geometries of the features of INPUT_FILE: what the collector writes
\* (Point, LineString, MultiLineString, Polygon), coordinate lists possibly empty
SamplerGeometries ==
  <<[type |-> "LineString",
     coordinates |-> <<<<27580000, 47160000>>, <<27590000, 47170000>>,
                       <<27600000, 47180000>>>>],
    [type |-> "LineString", coordinates |-> <<>>],
    [type |-> "MultiLineString",
     coordinates |-> <<<<<<27580000, 47160000>>, <<27590000, 47170000>>>>,
                       <<<<27600000, 47180000>>>>>>],
    [type |-> "MultiLineString", coordinates |-> <<<<>>>>],
    [type |-> "Point", coordinates |-> <<27590000, 47170000>>],
    [type |-> "Point", coordinates |-> <<0, 47170000>>],
    [type |-> "Polygon",
     coordinates |-> <<<<<<27580000, 47160000>>, <<27590000, 47170000>>,
                         <<27580000, 47160000>>>>>>]>>

\* what the point source can answer: an exception of requests.get,
\* raise_for_status or resp.json() (get_flow_segment_data then returns None),
\* or a decoded, non-empty JSON document
QueryAnswers ==
  <<Raised("request"), Raised("json"),
    [json |-> [flowSegmentData |-> [currentSpeed |-> 31, freeFlowSpeed |-> 50]]],
    [json |-> [detailedError |-> "no segment"]]>>

get_flow_segment_data(answer) ==
  IF IsRaised(answer) THEN PyNone ELSE answer.json

InputFeature(g) ==
  [type |-> "Feature", geometry |-> SamplerGeometries[g],
   properties |-> [layer |-> "Traffic flow"]]

InitSampler ==
  /\ \E gs \in SeqsUpTo(1..Len(SamplerGeometries), MaxInput) :
       s_input = [i \in 1..Len(gs) |-> InputFeature(gs[i])]
  /\ s_pc = "start"
  /\ s_idx = 0 /\ raw_data = <<>> /\ s_queries = <<>> /\ s_log = <<>>
  /\ s_saved = Idle
  /\ call = Idle /\ ret = Pending
  /\ MainIdle
  /\ RenderIdle

\* number of features the loop visits: len(features[:1])
Sampled == Min(Len(s_input), SAMPLE_LIMIT)

\* `not lat or not lon`: None and 0 are falsy
NoPoint(pt) ==
  IF "none" \in DOMAIN pt THEN TRUE ELSE (pt.lat = 0 \/ pt.lon = 0)

\* main up to the loop: the input file is read
Sampler_Start ==
  /\ s_pc = "start"
  /\ s_pc' = "loop"
  /\ s_idx' = 1
  /\ raw_data' = <<>>
  /\ UNCHANGED <<s_input, s_queries, s_log, s_saved, pureVars, mainVars, renderVars>>

\* an iteration in which extract_center_point raises: nothing in main
\* catches it, the run ends with a traceback
Sampler_Raise ==
  /\ s_pc = "loop" /\ s_idx <= Sampled
  /\ IsRaised(extract_center_point(s_input[s_idx].geometry))
  /\ s_pc' = "raised"
  /\ UNCHANGED <<s_input, s_idx, raw_data, s_queries, s_log, s_saved,
                 pureVars, mainVars, renderVars>>

\* an iteration that finds no query point: continue
Sampler_Skip ==
  /\ s_pc = "loop" /\ s_idx <= Sampled
  /\ LET pt == extract_center_point(s_input[s_idx].geometry)
     IN  ~IsRaised(pt) /\ NoPoint(pt)
  /\ s_idx' = s_idx + 1
  /\ s_queries' = Append(s_queries, [feature |-> s_idx, succeeded |-> FALSE,
                                     queried |-> FALSE])
  /\ UNCHANGED <<s_pc, s_input, raw_data, s_log, s_saved, pureVars, mainVars, renderVars>>

\* an iteration that queries the point; time.sleep(0.2) ends it
Sampler_Query ==
  /\ s_pc = "loop" /\ s_idx <= Sampled
  /\ LET pt == extract_center_point(s_input[s_idx].geometry)
     IN  /\ ~IsRaised(pt) /\ ~NoPoint(pt)
         /\ \E k \in 1..Len(QueryAnswers) :
              LET tomtom_response == get_flow_segment_data(QueryAnswers[k])
              IN  /\ raw_data' =
                       IF IsFalsy(tomtom_response) THEN raw_data
                       ELSE Append(raw_data,
                                   [query_timestamp |-> Len(s_log),
                                    query_lat |-> pt.lat,
                                    query_lon |-> pt.lon,
                                    tomtom_raw_response |-> tomtom_response])
                  /\ s_queries' =
                       Append(s_queries,
                              [feature |-> s_idx, queried |-> TRUE,
                               succeeded |-> ~IsRaised(QueryAnswers[k])])
         /\ s_log' = s_log \o <<[ev |-> "query", lat |-> pt.lat, lon |-> pt.lon],
                                [ev |-> "sleep", lat |-> 0, lon |-> 0]>>
  /\ s_idx' = s_idx + 1
  /\ UNCHANGED <<s_pc, s_input, s_saved, pureVars, mainVars, renderVars>>

\* after the loop: the NDJSON, JSON and metadata files are written
Sampler_Save ==
  /\ s_pc = "loop" /\ s_idx > Sampled
  /\ s_saved' = [records |-> raw_data, total_records |-> Len(raw_data)]
  /\ s_pc' = "done"
  /\ UNCHANGED <<s_input, s_idx, raw_data, s_queries, s_log, pureVars, mainVars, renderVars>>

NextSampler ==
  \/ Sampler_Start
  \/ Sampler_Raise
  \/ Sampler_Skip
  \/ Sampler_Query
  \/ Sampler_Save

SpecSampler == InitSampler /\ [][NextSampler]_vars

-----------------------------------------------------------------------------
(* Claims about the collector run, checked under Spec *)

FlowFile == "traffic_flow_tiles.geojson"
IncidentFile == "traffic_incidents.geojson"
SummaryFile == "collection_summary.json"

FlowDone == pc \in {"incidents", "summary", "done"}

\* the raw features of a decoded tile that carry a geometry of a supported
\* type with coordinates, as (tile, layer, id) keys in layer and feature order
Recordable(feat) ==
  /\ "geometry" \in DOMAIN feat
  /\ "type" \in DOMAIN feat.geometry
  /\ "coordinates" \in DOMAIN feat.geometry
  /\ feat.geometry.type \in KnownTypes

RawKey(feat, layer, tile) ==
  <<tile[1], tile[2], layer.name,
    IF "properties" \in DOMAIN feat THEN feat.properties.id ELSE "-">>

RECURSIVE Flatten(_)
Flatten(seqs) == IF seqs = <<>> THEN <<>> ELSE Head(seqs) \o Flatten(Tail(seqs))

RECURSIVE KeepRecordable(_, _, _)
KeepRecordable(feats, layer, tile) ==
  IF feats = <<>> THEN <<>>
  ELSE (IF Recordable(Head(feats)) THEN <<RawKey(Head(feats), layer, tile)>>
        ELSE <<>>) \o KeepRecordable(Tail(feats), layer, tile)

ExpectedOfTile(i) ==
  IF IsRaised(fetched[i]) THEN <<>>
  ELSE LET decoded == DecodedTiles[fetched[i].decoded]
       IN  Flatten([l \in 1..Len(decoded) |->
                      IF "features" \in DOMAIN decoded[l].obj
                      THEN KeepRecordable(decoded[l].obj.features, decoded[l], tiles[i])
                      ELSE <<>>])

ExpectedKeys == Flatten([i \in 1..Len(fetched) |-> ExpectedOfTile(i)])

FeatureKey(f) ==
  <<f.properties.tile_x, f.properties.tile_y, f.properties.layer,
    IF "id" \in DOMAIN f.properties THEN f.properties.id ELSE "-">>

FailedTiles == {i \in 1..Len(fetched) : IsRaised(fetched[i])}

\* position in the log of the request of tile i: a collected tile logs a
\* request and a sleep, a failed tile a request
RequestAt(i) == i + Cardinality({j \in 1..(i - 1) : j \notin FailedTiles})

\* C1: whichever tiles fail to fetch, every tile is still requested, the
\* feature collection is written, and it holds exactly the features of the
\* tiles that did not fail, none of a failed tile; when every tile fails the
\* collection written is empty.
C1_FailedTilesSkipped ==
  FlowDone =>
    /\ Len(fetched) = Len(tiles)
    /\ \A i \in 1..Len(tiles) : log[RequestAt(i)] = TileRequest(tiles[i])
    /\ FlowFile \in DOMAIN files
    /\ LET written == files[FlowFile].features
       IN  /\ [i \in 1..Len(written) |-> FeatureKey(written[i])] = ExpectedKeys
           /\ \A i \in FailedTiles : \A k \in 1..Len(written) :
                <<written[k].properties.tile_x, written[k].properties.tile_y>> # tiles[i]
           /\ (FailedTiles = 1..Len(tiles)) => written = <<>>

C1_Witness ==
  /\ pc = "done"
  /\ Len(tiles) = 5
  /\ Cardinality(FailedTiles) = 1
  /\ 3 \in FailedTiles
  /\ Len(files[FlowFile].features) = 4

\* C7: every recorded feature carries the layer name and the index
\* (tile_x, tile_y, tile_z) of the tile it was decoded from, whatever the
\* provider's own properties say; N tiles answering one LineString feature
\* each give N features, the i-th tagged with the i-th tile.
LayerNames(k) == {DecodedTiles[k][l].name : l \in 1..Len(DecodedTiles[k])}

C7_FeaturesTagged ==
  /\ \A k \in 1..Len(all_features) :
       LET p == all_features[k].properties
       IN  /\ {"layer", "tile_x", "tile_y", "tile_z"} \subseteq DOMAIN p
           /\ p.tile_z = cfg.zoom
           /\ \E i \in 1..Len(fetched) :
                /\ ~IsRaised(fetched[i])
                /\ <<p.tile_x, p.tile_y>> = tiles[i]
                /\ p.layer \in LayerNames(fetched[i].decoded)
           /\ all_records[k] = p
  /\ (\A i \in 1..Len(fetched) : ~IsRaised(fetched[i]) /\ fetched[i].decoded = 1) =>
       /\ Len(all_features) = Len(fetched)
       /\ \A i \in 1..Len(fetched) :
            /\ all_features[i].geometry.type = "LineString"
            /\ <<all_features[i].properties.tile_x,
                 all_features[i].properties.tile_y>> = tiles[i]

C7_Witness ==
  /\ pc = "done"
  /\ Len(tiles) = 4
  /\ \E k \in 1..Len(all_features) :
       /\ "id" \in DOMAIN all_features[k].properties
       /\ all_features[k].properties.id = "e"
       /\ all_features[k].properties.layer = "Traffic flow"
       /\ <<all_features[k].properties.tile_x,
            all_features[k].properties.tile_y>> = tiles[4]

\* C8: when the incident request fails at any step (request, JSON decode,
\* reshaping of a returned incident) the run goes on to generate_summary and
\* no incident of that request is persisted as a feature.
IncidentFailed ==
  IF IsRaised(incident_resp) THEN TRUE
  ELSE IF "incidents" \notin DOMAIN incident_resp.data THEN FALSE
  ELSE \E i \in 1..Len(incident_resp.data.incidents) :
         CannotReshape(incident_resp.data.incidents[i])

C8_IncidentsDegrade ==
  (pc \in {"summary", "done"} /\ IncidentFailed) =>
    /\ IncidentFile \notin DOMAIN files
    /\ "traffic_incidents_records.ndjson" \notin DOMAIN files
    /\ pc = "done" => SummaryFile \in DOMAIN files

C8_Witness ==
  /\ pc = "done"
  /\ ~IsRaised(incident_resp)
  /\ IncidentFailed
  /\ "traffic_incidents_raw.json" \in DOMAIN files
  /\ SummaryFile \in DOMAIN files
  /\ IncidentFile \notin DOMAIN files

\* C10: the inter-tile delay is issued after every tile, failed or not: a
\* tile request is directly followed by a sleep, so that no request follows
\* a tile request without a delay in between, and the last tile's request is
\* followed by a sleep as well once the loop is over.
C10_SleepAfterEveryTile ==
  /\ \A i \in 1..(Len(log) - 1) :
       (log[i].ev = "request" /\ log[i].kind = "tile") => log[i + 1].ev = "sleep"
  /\ (FlowDone /\ Len(tiles) > 0) =>
       /\ RequestAt(Len(tiles)) < Len(log)
       /\ log[RequestAt(Len(tiles)) + 1].ev = "sleep"

-----------------------------------------------------------------------------
(* Claims about the segment sampler, checked under SpecSampler *)

\* C4: whatever the geometry of a sampled feature and whatever the outcome of
\* its query, the run reaches the save step, and the saved records are one
\* per feature whose query succeeded, in feature order.
Succeeded == SelectSeq(s_queries, LAMBDA q : q.succeeded)

C4_SamplerNeverAborts ==
  /\ s_pc # "raised"
  /\ s_pc = "done" =>
       /\ Len(s_queries) = Sampled
       /\ Len(s_saved.records) = Len(Succeeded)
       /\ \A k \in 1..Len(Succeeded) :
            LET g == s_input[Succeeded[k].feature].geometry
            IN  /\ s_saved.records[k].query_lat = extract_center_point(g).lat
                /\ s_saved.records[k].query_lon = extract_center_point(g).lon


-----------------------------------------------------------------------------
(* visualize_traffic.py: the raster renderer *)

\* bounding box of the canvas, micro-degrees (the renderer's own MIN_LAT,
\* MIN_LON, MAX_LAT, MAX_LON, which differ from the collector's)
VIS_MIN_LAT == 47034200
VIS_MIN_LON == 27501000
VIS_MAX_LAT == 47285200
VIS_MAX_LON == 27694300
IMG_WIDTH == 5000
IMG_HEIGHT == 5000
\* thickness argument of cv2.line
LINE_THICKNESS == 3
\* default of properties.get('traffic_level', 0.5), millionths
DEFAULT_LEVEL == 500000

\* norm_lon = (lon - min_lon) / (max_lon - min_lon), pixel_x = int(norm_lon * w);
\* 1 - norm_lat = (max_lat - lat) / (max_lat - min_lat), pixel_y = int(that * h).
\* int() truncates toward zero, so a coordinate less than one pixel below 0
\* lands on pixel 0.
latlon_to_pixel(lat, lon, min_lat, max_lat, min_lon, max_lon, img_width, img_height) ==
  LET pixel_x == IntTrunc((lon - min_lon) * img_width, max_lon - min_lon)
      pixel_y == IntTrunc((max_lat - lat) * img_height, max_lat - min_lat)
  IN  <<pixel_x, pixel_y>>

\* the pixel of one GeoJSON position [lon, lat] on the renderer's canvas
PixelOf(pos) ==
  latlon_to_pixel(pos[2], pos[1], VIS_MIN_LAT, VIS_MAX_LAT, VIS_MIN_LON,
                  VIS_MAX_LON, IMG_WIDTH, IMG_HEIGHT)

\* 0 <= px < IMG_WIDTH and 0 <= py < IMG_HEIGHT
InCanvas(p) ==
  /\ 0 <= p[1] /\ p[1] < IMG_WIDTH
  /\ 0 <= p[2] /\ p[2] < IMG_HEIGHT

\* the inner loop of load_segments: the pixels of the positions of one line,
\* in order, without those that fall outside the canvas
PixelCoords(line) ==
  SelectSeq([k \in 1..Len(line) |-> PixelOf(line[k])], LAMBDA p : InCanvas(p))

\* geometry.get('type'), with the string "None" for an absent key
GeomType(geometry) ==
  IF "type" \in DOMAIN geometry THEN geometry.type ELSE "None"

\* pixel_coords_list: the lines of the geometry, [] for every other type
SourceLines(feature) ==
  LET geometry == DictGet(feature, "geometry", EmptyDict)
      coords == DictGet(geometry, "coordinates", <<>>)
  IN  IF GeomType(geometry) = "LineString" THEN <<coords>>
      ELSE IF GeomType(geometry) = "MultiLineString" THEN coords
      ELSE <<>>

\* the segments one feature contributes: one per line that keeps more than
\* one pixel, coloured by the feature's traffic level
SegmentsOfFeature(feature) ==
  LET properties == DictGet(feature, "properties", EmptyDict)
      traffic_level == DictGet(properties, "traffic_level", DEFAULT_LEVEL)
      color == get_color_for_traffic_level(traffic_level)
      lines == SourceLines(feature)
      pixels == [p \in 1..Len(lines) |-> PixelCoords(lines[p])]
      kept == SelectSeq(pixels, LAMBDA pixel_coords : Len(pixel_coords) > 1)
  IN  [s \in 1..Len(kept) |-> [coords |-> kept[s], color |-> color]]

load_segments(data) ==
  LET features == DictGet(data, "features", <<>>)
  IN  Flatten([f \in 1..Len(features) |-> SegmentsOfFeature(features[f])])

-----------------------------------------------------------------------------
(* Renderer inputs *)

\* GeoJSON positions [lon, lat], micro-degrees: two inside the canvas, one
\* east of it (pixel_x = 5147), one less than a pixel west of it (pixel_x
\* truncates to 0, so it is kept)
InsideA == <<27550000, 47100000>>
InsideB == <<27650000, 47200000>>
OutsideEast == <<27700000, 47150000>>
EdgeWest == <<27500990, 47150000>>
RenderPositions == {InsideA, InsideB, OutsideEast, EdgeWest}
RenderLines == SeqsUpTo(RenderPositions, MaxPts)
RenderLevels == {200000, 800000}
\* the lines of MultiLineStrings and of the files of several features
FewLines ==
  {<<InsideA, InsideB>>, <<InsideA, OutsideEast, InsideB>>,
   <<OutsideEast, InsideA>>, <<InsideB, EdgeWest>>}
RenderParts == SeqsUpTo(FewLines, MaxParts)

\* features holding one LineString, with and without a traffic level
LineStringFeatures ==
  {[type |-> "Feature",
    geometry |-> [type |-> "LineString", coordinates |-> c],
    properties |-> [traffic_level |-> l]] : c \in RenderLines, l \in RenderLevels}
LineStringFeaturesNoLevel ==
  {[type |-> "Feature",
    geometry |-> [type |-> "LineString", coordinates |-> c],
    properties |-> [layer |-> "Traffic flow"]] : c \in RenderLines}
MultiLineStringFeatures ==
  {[type |-> "Feature",
    geometry |-> [type |-> "MultiLineString", coordinates |-> c],
    properties |-> [traffic_level |-> 200000]] : c \in RenderParts}
\* features load_segments passes over: a Point, and one without geometry
PointFeatures ==
  {[type |-> "Feature",
    geometry |-> [type |-> "Point", coordinates |-> InsideA],
    properties |-> [traffic_level |-> l]] : l \in RenderLevels}
BareFeatures == {[type |-> "Feature"]}
FewFeatures ==
  {[type |-> "Feature",
    geometry |-> [type |-> "LineString", coordinates |-> c],
    properties |-> [traffic_level |-> 800000]] : c \in FewLines}

FeatureCollection(features) ==
  [type |-> "FeatureCollection", features |-> features]

-----------------------------------------------------------------------------
(* visualize: load the segments, draw every consecutive pixel pair of every *)
(* segment, write the image.                                                *)

InitRender ==
  /\ \/ \E f \in LineStringFeatures : geojson_data = FeatureCollection(<<f>>)
     \/ \E f \in LineStringFeaturesNoLevel : geojson_data = FeatureCollection(<<f>>)
     \/ \E f \in MultiLineStringFeatures : geojson_data = FeatureCollection(<<f>>)
     \/ \E f \in PointFeatures : geojson_data = FeatureCollection(<<f>>)
     \/ \E f \in BareFeatures : geojson_data = FeatureCollection(<<f>>)
     \/ \E fs \in SeqsUpTo(FewFeatures, MaxInput) :
          geojson_data = FeatureCollection(fs)
     \/ geojson_data = [type |-> "FeatureCollection"]
  /\ v_pc = "start"
  /\ segments = <<>> /\ seg_idx = 0 /\ line_idx = 0
  /\ image = <<>> /\ total_lines = 0 /\ v_saved = Idle
  /\ call = Idle /\ ret = Pending
  /\ MainIdle
  /\ SamplerIdle

\* segments = load_segments(geojson_data); image = np.zeros(...); total_lines = 0
Visualize_Load ==
  /\ v_pc = "start"
  /\ segments' = load_segments(geojson_data)
  /\ image' = <<>>
  /\ total_lines' = 0
  /\ seg_idx' = 1 /\ line_idx' = 1
  /\ v_pc' = "draw"
  /\ UNCHANGED <<geojson_data, v_saved, pureVars, mainVars, samplerVars>>

\* one pass of the inner loop: cv2.line(image, coords[i], coords[i + 1],
\* color, 3); total_lines += 1; then the next pair, or the next segment
\* when range(len(coords) - 1) is exhausted
Visualize_Line ==
  /\ v_pc = "draw"
  /\ seg_idx <= Len(segments)
  /\ LET coords == segments[seg_idx].coords
         color == segments[seg_idx].color
     IN  /\ line_idx <= Len(coords) - 1
         /\ image' = Append(image, [pt1 |-> coords[line_idx],
                                    pt2 |-> coords[line_idx + 1],
                                    color |-> color,
                                    thickness |-> LINE_THICKNESS])
         /\ total_lines' = total_lines + 1
         /\ IF line_idx + 1 <= Len(coords) - 1
            THEN seg_idx' = seg_idx /\ line_idx' = line_idx + 1
            ELSE seg_idx' = seg_idx + 1 /\ line_idx' = 1
  /\ UNCHANGED <<v_pc, geojson_data, segments, v_saved,
                 pureVars, mainVars, samplerVars>>

\* after the last segment: the legend with len(segments), then cv2.imwrite
Visualize_Save ==
  /\ v_pc = "draw"
  /\ seg_idx > Len(segments)
  /\ v_saved' = [lines |-> image, legend_segments |-> Len(segments)]
  /\ v_pc' = "done"
  /\ UNCHANGED <<geojson_data, segments, seg_idx, line_idx, image,
                 total_lines, pureVars, mainVars, samplerVars>>

NextRender ==
  \/ Visualize_Load
  \/ Visualize_Line
  \/ Visualize_Save

SpecRender == InitRender /\ [][NextRender]_vars

-----------------------------------------------------------------------------
(* Renderer claims *)

\* every line of every feature of the input, as its source positions
AllSourceLines ==
  LET features == DictGet(geojson_data, "features", <<>>)
  IN  Flatten([f \in 1..Len(features) |-> SourceLines(features[f])])

\* the drawn line joins the pixels of two positions that follow one another
\* in one source line, both inside the canvas
JoinsAdjacent(drawn) ==
  \E l \in 1..Len(AllSourceLines) :
    \E k \in 1..(Len(AllSourceLines[l]) - 1) :
      /\ PixelOf(AllSourceLines[l][k]) = drawn.pt1
      /\ PixelOf(AllSourceLines[l][k + 1]) = drawn.pt2
      /\ InCanvas(drawn.pt1) /\ InCanvas(drawn.pt2)

\* C11: dropping out-of-canvas points can shorten but not relocate a line:
\* every straight line drawn on the image joins two in-canvas points that
\* are adjacent in a feature's source coordinate sequence, so no line is
\* drawn between two points that a dropped point separated.
C11_LinesJoinAdjacentPoints ==
  \A n \in 1..Len(image) : JoinsAdjacent(image[n])
====
